---------------------------- MODULE Spec2Model ----------------------------
(***************************************************************************)
(* Model of billbot (src/index.js, second snapshot, lines 171-528): the    *)
(* in-memory counter tables, the webhook handler, the Google-Sheets event  *)
(* log, the startup rebuild and the cron jobs.                             *)
(*                                                                         *)
(* Node runs one task at a time; a task gives up control only at an        *)
(* `await` on I/O.  Every action below is one run-to-completion segment of *)
(* a task: from its start (or from the completion of the I/O it awaited)   *)
(* to its next I/O await or its end.                                       *)
(***************************************************************************)
EXTENDS Integers, Sequences, FiniteSets, TLC

(***************************************************************************)
(* Bounds of the model.                                                    *)
(***************************************************************************)
MaxReq == 2          \* HTTP requests that arrive during a run
MaxTick == 1         \* instants the wall clock moves on during a run

Users == {"A", "B"}

(***************************************************************************)
(* The state of the process and of what it talks to.                       *)
(***************************************************************************)
VARIABLES
    clock,        \* index of the current instant
    data,         \* the global `data`
    file,         \* contents of data.json
    sheetEvents,  \* TRUE once `sheetEvents` holds the worksheet
    sheet,        \* rows of the "events" worksheet
    init,         \* the startup task, lines 516-523
    req,          \* the HTTP requests and their handlers
    cron8,        \* the 8PM cron job, lines 473-479
    hist          \* history of the run (not program state)

vars == <<clock, data, file, sheetEvents, sheet, init, req, cron8, hist>>

(***************************************************************************)
(* Time.  A Date is a number of milliseconds.  JavaScript counts them from *)
(* 1970-01-01T00:00Z; the model counts them from 00:00Z of EpochDay so     *)
(* that they stay inside TLC's 32-bit integers.  Day numbers are days      *)
(* since 1970-01-01, as Date.UTC(y, m-1, d) / 86400000 yields them.        *)
(***************************************************************************)
MsPerDay == 86400000
MsPerHour == MsPerDay \div 24

\* Date.UTC(y, m - 1, d) / 86400000 for a civil date (proleptic Gregorian).
DaysFromCivil(y, m, d) ==
    LET yy  == IF m <= 2 THEN y - 1 ELSE y
        era == yy \div 400
        yoe == yy - era * 400
        mp  == IF m > 2 THEN m - 3 ELSE m + 9
        doy == (153 * mp + 2) \div 5 + d - 1
        doe == yoe * 365 + yoe \div 4 - yoe \div 100 + doy
    IN  era * 146097 + doe - 719468

\* The civil date of a day number: what a date formatter prints for it.
CivilFromDays(z0) ==
    LET z   == z0 + 719468
        era == z \div 146097
        doe == z - era * 146097
        yoe == (doe - doe \div 1460 + doe \div 36524 - doe \div 146096) \div 365
        doy == doe - (365 * yoe + yoe \div 4 - yoe \div 100)
        mp  == (5 * doy + 2) \div 153
        d   == doy - (153 * mp + 2) \div 5 + 1
        m   == IF mp < 10 THEN mp + 3 ELSE mp - 9
        y   == yoe + era * 400 + (IF m <= 2 THEN 1 ELSE 0)
    IN  [y |-> y, m |-> m, d |-> d]

\* The model's epoch: Friday 2025-10-31, 00:00Z.  The days after it hold a
\* month start (Sat Nov 1), a week start (Sun Nov 2) and the end of
\* daylight-saving time in New York (Sun Nov 2, 06:00Z).
EpochDay == DaysFromCivil(2025, 10, 31)

\* End of daylight-saving time in America/New_York, 2025-11-02T06:00Z.
DstEnd == 2 * MsPerDay + 6 * MsPerHour

\* Offset of America/New_York wall-clock time from UTC at instant t.
NyOffset(t) == IF t < DstEnd THEN 0 - 4 * MsPerHour ELSE 0 - 5 * MsPerHour

\* Day number (since 1970) of the New York civil day that holds instant t.
NyDayNumber(t) == EpochDay + ((t + NyOffset(t)) \div MsPerDay)

\* Milliseconds since New York local midnight at instant t.
NyMsOfDay(t) == (t + NyOffset(t)) % MsPerDay

\* getNyYMD: the en-CA formatted "YYYY-MM-DD" in New York, split in y, m, d,
\* and ym, its first seven characters "YYYY-MM".
getNyYMD(date) ==
    LET c == CivilFromDays(NyDayNumber(date))
    IN  [y |-> c.y, m |-> c.m, d |-> c.d, ym |-> <<c.y, c.m>>]

\* The weekday of the UTC day that holds the instant.
getNyWeekdayIndexUtc(date) == (EpochDay + (date \div MsPerDay) + 4) % 7

\* getNyWeekdayIndex: the en-US short weekday in New York, mapped Sun -> 0
\* ... Sat -> 6.  1970-01-01 was a Thursday.
getNyWeekdayIndex(date) == (NyDayNumber(date) + 4) % 7

\* nyOrdinalDay: Math.floor(Date.UTC(y, m - 1, d) / 86400000).
nyOrdinalDay(date) ==
    LET c == getNyYMD(date) IN DaysFromCivil(c.y, c.m, c.d)

(***************************************************************************)
(* Timestamps as the sheet stores them.  Date.prototype.toISOString prints *)
(* the UTC fields; new Date(string) parses them back, and yields an        *)
(* invalid Date (getTime() is NaN) for text that is no date.  A cell can   *)
(* also be empty.                                                          *)
(***************************************************************************)
toISOString(t) ==
    LET c == CivilFromDays(EpochDay + (t \div MsPerDay))
    IN  [kind |-> "iso", y |-> c.y, m |-> c.m, d |-> c.d, ms |-> t % MsPerDay]

EmptyCell == [kind |-> "empty", y |-> 0, m |-> 0, d |-> 0, ms |-> 0]
GarbageCell == [kind |-> "garbage", y |-> 0, m |-> 0, d |-> 0, ms |-> 0]

\* !ts of the rebuild loop: an empty cell is falsy.
IsFalsyCell(ts) == ts.kind = "empty"

\* Number.isNaN(new Date(ts).getTime())
IsNaNDate(ts) == ts.kind # "iso"

\* new Date(ts).getTime() of a parseable timestamp.
ParseDate(ts) == (DaysFromCivil(ts.y, ts.m, ts.d) - EpochDay) * MsPerDay + ts.ms

(***************************************************************************)
(* Counter tables.  A table is a JavaScript object used as a map from user *)
(* name to count, modelled as the sequence of its entries in the order      *)
(* Object.entries lists them.                                              *)
(***************************************************************************)
EmptyTable == << >>

Keys(t) == {t[i].name : i \in 1..Len(t)}

IndexOf(t, u) == CHOOSE i \in 1..Len(t) : t[i].name = u

\* t[u] || 0
Get(t, u) == IF u \in Keys(t) THEN t[IndexOf(t, u)].count ELSE 0

\* The names a message or a row can carry beyond those of Users: a sender
\* may choose any nickname, a name of digits included.
Names == Users \cup {"C", "D", "7"}

\* The names a request can carry: a nickname may also be the name of a
\* property every object inherits.
Senders == Names \cup {"__proto__"}

\* o["__proto__"] is the accessor Object.prototype defines: reading it
\* gives the prototype, an object, and assigning it a value that is neither
\* an object nor null changes nothing.
IsProtoAccessor(u) == u = "__proto__"

\* The array index a property key denotes, -1 when it denotes none: the
\* canonical decimal strings, of the names modelled "7".
ArrayIndex(u) == IF u = "7" THEN 7 ELSE -1

\* Creating own property e on t.  A table is held in the order Object.entries
\* lists it: the array-index keys first, ascending, then the other keys in
\* the order they were created.
DefineProperty(t, e) ==
    IF ArrayIndex(e.name) < 0 THEN Append(t, e)
    ELSE LET n == Cardinality({i \in 1..Len(t) :
                      /\ ArrayIndex(t[i].name) >= 0
                      /\ ArrayIndex(t[i].name) < ArrayIndex(e.name)})
         IN  SubSeq(t, 1, n) \o <<e>> \o SubSeq(t, n + 1, Len(t))

\* t[u] = (t[u] || 0) + 1 : an existing key keeps its place, a new key is
\* created.  For "__proto__" the value read is the prototype, the sum is a
\* string, and the assignment is ignored.
Bump(t, u) ==
    IF IsProtoAccessor(u) THEN t
    ELSE IF u \in Keys(t)
         THEN [t EXCEPT ![IndexOf(t, u)].count = @ + 1]
         ELSE DefineProperty(t, [name |-> u, count |-> 1])

Tables == {"daily", "weekly", "monthly", "allTime"}

\* incrementCount as it was before allTime was added (lines 43-53).
incrementCountOld(d, user) ==
    [d EXCEPT !.daily   = Bump(@, user),
              !.weekly  = Bump(@, user),
              !.monthly = Bump(@, user)]

\* incrementCount(user), lines 225-234 (saveData is applied by the caller
\* action, which writes the result to data.json).
incrementCount(d, user) ==
    [d EXCEPT !.daily   = Bump(@, user),
              !.weekly  = Bump(@, user),
              !.monthly = Bump(@, user),
              !.allTime = Bump(@, user)]

\* Array.prototype.sort((a, b) => b[1] - a[1]): a stable sort, count
\* descending.  Insert e after every entry whose count is not smaller.
RECURSIVE InsertSorted(_, _)
InsertSorted(sorted, e) ==
    IF sorted = << >> THEN <<e>>
    ELSE IF Head(sorted).count >= e.count
         THEN <<Head(sorted)>> \o InsertSorted(Tail(sorted), e)
         ELSE <<e>> \o sorted

RECURSIVE SortDesc(_)
SortDesc(t) ==
    IF t = << >> THEN << >>
    ELSE InsertSorted(SortDesc(SubSeq(t, 1, Len(t) - 1)), t[Len(t)])

\* getTopThree(obj): entries sorted, .slice(0, 3)
getTopThree(t) ==
    LET s == SortDesc(t) IN SubSeq(s, 1, IF Len(s) < 3 THEN Len(s) ELSE 3)

\* A message is its kind and its ranked sections, each a sequence of
\* (name, count) entries printed "{rank}. {name} - {count}".
NoMessage == [kind |-> "none", sections |-> << >>]

\* formatFullLeaderboard(title, obj): the title, then one line per entry of
\* the sorted table ("No bills yet." when there is none).
formatFullLeaderboard(t) == SortDesc(t)

\* build8pmLeaderboardText(): the four top-three sections.
build8pmLeaderboardText(d) ==
    [kind |-> "8pm",
     sections |-> <<getTopThree(d.daily), getTopThree(d.weekly),
                    getTopThree(d.monthly), getTopThree(d.allTime)>>]

\* The message of the bill branch, lines 458-460.
RunningBoardText(d) ==
    [kind |-> "running", sections |-> <<formatFullLeaderboard(d.daily)>>]

(***************************************************************************)
(* The rebuild loop, lines 350-382: a fold over the rows read.             *)
(***************************************************************************)
\* The loop accumulating into the live tables instead of fresh ones.
LiveTables ==
    [daily |-> data.daily, weekly |-> data.weekly,
     monthly |-> data.monthly, allTime |-> data.allTime]

NoTables ==
    [daily |-> EmptyTable, weekly |-> EmptyTable,
     monthly |-> EmptyTable, allTime |-> EmptyTable]

\* if (!ts || !user) continue; if (Number.isNaN(dt.getTime())) continue;
RowSkipped(r) == IsFalsyCell(r.timestamp) \/ r.user = "" \/ IsNaNDate(r.timestamp)

\* ym === nowYM
InMonth(ym, nowYM) == ym = nowYM

\* ord > weekStartOrd: the week start itself left out.
InWeekStrict(ord, weekStartOrd) == ord > weekStartOrd

\* ord >= weekStartOrd
InWeek(ord, weekStartOrd) == ord >= weekStartOrd

\* ord === nowOrd
InDay(ord, nowOrd) == ord = nowOrd

\* One iteration of the loop body over row r, lines 358-381.
RebuildRow(acc, r, nowOrd, nowYM, weekStartOrd) ==
    IF RowSkipped(r) THEN acc
    ELSE LET dt  == ParseDate(r.timestamp)
             ord == nyOrdinalDay(dt)
             ym  == getNyYMD(dt).ym
         IN  [allTime |-> Bump(acc.allTime, r.user),
              monthly |-> IF InMonth(ym, nowYM)
                          THEN Bump(acc.monthly, r.user) ELSE acc.monthly,
              weekly  |-> IF InWeek(ord, weekStartOrd)
                          THEN Bump(acc.weekly, r.user) ELSE acc.weekly,
              daily   |-> IF InDay(ord, nowOrd)
                          THEN Bump(acc.daily, r.user) ELSE acc.daily]

\* The loop ending at the first row it cannot use (break for continue).
RECURSIVE RebuildLoopBreak(_, _, _, _, _)
RebuildLoopBreak(acc, rows, nowOrd, nowYM, weekStartOrd) ==
    IF rows = << >> \/ RowSkipped(Head(rows)) THEN acc
    ELSE RebuildLoopBreak(
             RebuildRow(acc, Head(rows), nowOrd, nowYM, weekStartOrd),
             Tail(rows), nowOrd, nowYM, weekStartOrd)

\* The loop leaving a row out when the row before it has the same user.
RECURSIVE RebuildLoopDedup(_, _, _, _, _)
RebuildLoopDedup(acc, rows, nowOrd, nowYM, weekStartOrd) ==
    IF rows = << >> THEN acc
    ELSE RebuildLoopDedup(
             RebuildRow(acc, Head(rows), nowOrd, nowYM, weekStartOrd),
             IF Len(rows) >= 2 /\ rows[2].user = rows[1].user
             THEN Tail(Tail(rows)) ELSE Tail(rows),
             nowOrd, nowYM, weekStartOrd)

RECURSIVE RebuildLoop(_, _, _, _, _)
RebuildLoop(acc, rows, nowOrd, nowYM, weekStartOrd) ==
    IF rows = << >> THEN acc
    ELSE RebuildLoop(RebuildRow(acc, Head(rows), nowOrd, nowYM, weekStartOrd),
                     Tail(rows), nowOrd, nowYM, weekStartOrd)

\* weekStartOrd = nowOrd - getNyWeekdayIndex(now), line 348
WeekStartOrd(now) == nyOrdinalDay(now) - getNyWeekdayIndex(now)

\* The four fresh tables the loop leaves, from `now` of line 345 and the
\* rows of line 355.
RebuildTables(rows, now) ==
    RebuildLoop(NoTables, rows, nyOrdinalDay(now), getNyYMD(now).ym,
                WeekStartOrd(now))

\* Lines 384-388: the assignments that install the rebuilt tables.
InstallRebuilt(d, t, stamp) ==
    [d EXCEPT !.daily = t.daily, !.weekly = t.weekly, !.monthly = t.monthly,
              !.allTime = t.allTime, !.lastReset = stamp]

(***************************************************************************)
(* The wall clock.  It passes through these instants, in order; after the  *)
(* listed ones it moves on in steps of twelve hours.                       *)
(*   1  Fri Oct 31 19:00 EDT                                               *)
(*   2  Fri Oct 31 20:00 EDT        (8PM cron)                             *)
(*   3  Sat Nov  1 00:00 EDT        (monthly cron)                         *)
(*   4  Sat Nov  1 23:59:59.999 EDT                                        *)
(*   5  Sun Nov  2 00:00 EDT        (weekly cron)                          *)
(***************************************************************************)
ListedInstants ==
    <<23 * MsPerHour, 24 * MsPerHour, 28 * MsPerHour, 52 * MsPerHour - 1,
      52 * MsPerHour>>

InstantAt(i) ==
    IF i <= Len(ListedInstants) THEN ListedInstants[i]
    ELSE ListedInstants[Len(ListedInstants)] + (i - Len(ListedInstants)) * 12 * MsPerHour

\* The cron expressions of lines 474, 483 and 493, in America/New_York.
CronsAt(t) ==
    {c \in {"8pm"} : NyMsOfDay(t) = 20 * MsPerHour}
    \cup {c \in {"weekly"} : NyMsOfDay(t) = 0 /\ getNyWeekdayIndex(t) = 0}
    \cup {c \in {"monthly"} : NyMsOfDay(t) = 0 /\ getNyYMD(t).d = 1}

(***************************************************************************)
(* What the process finds when it starts: data.json and the sheet.         *)
(***************************************************************************)
Row(ts, user) == [timestamp |-> ts, user |-> user]

\* A log written before the process started: a row of Thu Oct 30 23:00 EDT
\* (Oct 31 in UTC), a row with unparseable time, a row of Fri Oct 31 11:00
\* EDT, a row without user, a row of Sat Oct 25, a row without time and a
\* row of Sun Oct 26 08:00 EDT, the first day of the week of the instants.
SeedLog ==
    <<Row(toISOString(3 * MsPerHour), "A"),
      Row(GarbageCell, "B"),
      Row(toISOString(15 * MsPerHour), "A"),
      Row(toISOString(16 * MsPerHour), ""),
      Row(toISOString(12 * MsPerHour - 6 * MsPerDay), "B"),
      Row(EmptyCell, "A"),
      Row(toISOString(12 * MsPerHour - 5 * MsPerDay), "A")>>

SeedLogs == {<< >>, SeedLog}

Entry(u, n) == [name |-> u, count |-> n]

\* DEFAULT_DATA, lines 192-198.
DefaultData(t) ==
    [daily |-> EmptyTable, weekly |-> EmptyTable, monthly |-> EmptyTable,
     allTime |-> EmptyTable, lastReset |-> toISOString(t)]

\* A data.json left by an earlier run.
CachedFile ==
    [daily |-> <<Entry("B", 1)>>, weekly |-> <<Entry("B", 1)>>,
     monthly |-> <<Entry("B", 1), Entry("A", 1)>>,
     allTime |-> <<Entry("B", 2), Entry("A", 1)>>,
     lastReset |-> toISOString(0)]

\* Lines 200-218: the defaults, overridden by what data.json holds.
LoadData(exists, raw, t) == IF exists THEN raw ELSE DefaultData(t)

now == InstantAt(clock)

Reqs == 1..MaxReq

NewReq == [pc |-> "new", user |-> "", ts |-> EmptyCell, msg |-> NoMessage,
           reset |-> FALSE, status |-> 0]

DoneReq(status) == [NewReq EXCEPT !.pc = "done", !.status = status]

ZeroCounts == [u \in Senders |-> 0]

\* History: bill events in the order they were counted, requests in the
\* order their rows reached the sheet, those whose append failed, and for
\* each user the allTime count when the tables were last loaded or rebuilt
\* and the increments since.
InitHist(d) ==
    [ingested |-> << >>, appends |-> << >>, failed |-> {},
     base |-> [u \in Senders |-> Get(d.allTime, u)], incs |-> ZeroCounts]

\* The startup task has run to its first await when the server starts to
\* listen.  Without configuration initSheets returns and the rebuild is
\* skipped (lines 267-270, 338-341): no sheet is ever used.  (A SA_JSON that
\* does not parse throws at line 272 into the catch of line 520, which
\* leaves the process in the same state.)  Otherwise doc.loadInfo() is in
\* flight.
Init ==
    /\ clock \in 1..Len(ListedInstants) - 1
    /\ \E exists \in BOOLEAN :
          data = LoadData(exists, CachedFile, InstantAt(clock))
    /\ file = data
    /\ sheetEvents = FALSE
    /\ \E configured \in BOOLEAN :
          IF configured
          THEN /\ sheet \in SeedLogs
               /\ init = [pc |-> "loadInfo", start |-> clock, now |-> 0, rows |-> << >>,
                       again |-> FALSE]
          ELSE /\ sheet = << >>
               /\ init = [pc |-> "skipped", start |-> clock, now |-> 0, rows |-> << >>,
                       again |-> FALSE]
    /\ req = [r \in Reqs |-> NewReq]
    /\ cron8 = [pc |-> "idle", msg |-> NoMessage, sent |-> FALSE]
    /\ hist = InitHist(data)

(***************************************************************************)
(* The startup task.                                                       *)
(***************************************************************************)
\* doc.loadInfo() resolves and the "events" tab exists: lines 288-291, then
\* rebuildCountsFromSheet up to its await of getRows (lines 338-355).
LoadInfoOk ==
    /\ init.pc = "loadInfo"
    /\ sheetEvents' = TRUE
    /\ init' = [init EXCEPT !.pc = "getRows", !.now = now]
    /\ UNCHANGED <<clock, data, file, sheet, req, cron8, hist>>

\* doc.loadInfo() rejects, or the tab is missing (line 289): the catch of
\* line 520.
LoadInfoFail ==
    /\ init.pc = "loadInfo"
    /\ init' = [init EXCEPT !.pc = "failed"]
    /\ UNCHANGED <<clock, data, file, sheetEvents, sheet, req, cron8, hist>>

\* The read installing the daily table as soon as the rows arrive, ahead of
\* the other three.
GetRowsServeStreaming ==
    /\ init.pc = "getRows"
    /\ init' = [init EXCEPT !.pc = "gotRows", !.rows = sheet]
    /\ data' = [data EXCEPT !.daily = RebuildTables(sheet, init.now).daily]
    /\ file' = data'
    /\ UNCHANGED <<clock, sheetEvents, sheet, req, cron8, hist>>

\* The sheet answers the read of line 355 with its rows.
GetRowsServe ==
    /\ init.pc = "getRows"
    /\ init' = [init EXCEPT !.pc = "gotRows", !.rows = sheet]
    /\ UNCHANGED <<clock, data, file, sheetEvents, sheet, req, cron8, hist>>

\* getRows() resolves: the loop, the assignments and saveData, lines
\* 357-390.
GetRowsOk ==
    /\ init.pc = "gotRows"
    /\ data' = InstallRebuilt(data, RebuildTables(init.rows, init.now),
                              toISOString(now))
    /\ file' = data'
    /\ init' = [init EXCEPT !.pc = "rebuilt"]
    /\ hist' = [hist EXCEPT !.base = [u \in Senders |-> Get(data'.allTime, u)],
                            !.incs = ZeroCounts]
    /\ UNCHANGED <<clock, sheetEvents, sheet, req, cron8>>

\* The tables emptied before the read, so that a failed read leaves them
\* empty.
GetRowsFailCleared ==
    /\ init.pc \in {"getRows", "gotRows"}
    /\ init' = [init EXCEPT !.pc = "failed"]
    /\ data' = InstallRebuilt(data, NoTables, data.lastReset)
    /\ file' = data'
    /\ UNCHANGED <<clock, sheetEvents, sheet, req, cron8, hist>>

\* getRows() rejects: the catch of line 520.
GetRowsFail ==
    /\ init.pc \in {"getRows", "gotRows"}
    /\ init' = [init EXCEPT !.pc = "failed"]
    /\ UNCHANGED <<clock, data, file, sheetEvents, sheet, req, cron8, hist>>

(***************************************************************************)
(* The webhook handler, app.post("/"), lines 436-470, and the test         *)
(* endpoint app.get("/test-8pm"), lines 502-513.  Requests are numbered in *)
(* the order they arrive.                                                  *)
(***************************************************************************)
Arrives(r) == req[r].pc = "new" /\ \A q \in 1..(r - 1) : req[q].pc # "new"

\* (req.body.text || "").trim().toLowerCase() of the texts modelled.
Normalize(text) ==
    CASE text = " Bill " -> "bill"
      [] text = "!TEST8" -> "!test8"
      [] text = "Utility bill" -> "utility bill"
      [] OTHER -> ""

\* A request that changes nothing: a bot's own message (line 439) or a text
\* that is neither command (line 465) is answered 200, a test request with
\* a wrong key 401 (line 505).
Ignored(r) ==
    /\ Arrives(r)
    /\ Normalize("Utility bill") \notin {"bill", "!test8"}
    /\ \E status \in {200, 401} : req' = [req EXCEPT ![r] = DoneReq(status)]
    /\ UNCHANGED <<clock, data, file, sheetEvents, sheet, init, cron8, hist>>

\* "!test8" (lines 447-448, resetDaily false) and GET /test-8pm with the
\* key (line 507, resetDaily true): post8pmLeaderboard up to its await of
\* postMessage, lines 427-428.
Post8pmRequest(r, reset) ==
    /\ Arrives(r)
    /\ reset \/ Normalize("!TEST8") = "!test8"
    /\ req' = [req EXCEPT ![r] = [NewReq EXCEPT !.pc = "post8", !.reset = reset,
                                     !.msg = build8pmLeaderboardText(data)]]
    /\ UNCHANGED <<clock, data, file, sheetEvents, sheet, init, cron8, hist>>

\* A reset that starts every period anew: it clears the weekly table with
\* the daily one.
ResetDailyAndWeekly(d, resetDaily) ==
    IF resetDaily
    THEN [d EXCEPT !.daily = EmptyTable, !.weekly = EmptyTable]
    ELSE d

\* if (resetDaily) { data.daily = {}; saveData(); }, lines 430-433.
ResetDaily(d, resetDaily) == IF resetDaily THEN [d EXCEPT !.daily = EmptyTable] ELSE d

\* Its postMessage resolves: lines 430-433, then the answer 200.
Post8pmOk(r) ==
    /\ req[r].pc = "post8"
    /\ data' = ResetDaily(data, req[r].reset)
    /\ file' = IF req[r].reset THEN data' ELSE file
    /\ req' = [req EXCEPT ![r] = DoneReq(200)]
    /\ UNCHANGED <<clock, sheetEvents, sheet, init, cron8, hist>>

\* The daily table cleared before the message is sent, so that a failed
\* send leaves it cleared.
Post8pmFailCleared(r) ==
    /\ req[r].pc = "post8"
    /\ data' = [data EXCEPT !.daily = IF req[r].reset THEN EmptyTable ELSE @]
    /\ file' = IF req[r].reset THEN data' ELSE file
    /\ req' = [req EXCEPT ![r] = DoneReq(IF req[r].reset THEN 500 ELSE 200)]
    /\ UNCHANGED <<clock, sheetEvents, sheet, init, cron8, hist>>

\* Its postMessage rejects: the catch of line 466 answers 200, that of line
\* 509 answers 500.
Post8pmFail(r) ==
    /\ req[r].pc = "post8"
    /\ req' = [req EXCEPT ![r] = DoneReq(IF req[r].reset THEN 500 ELSE 200)]
    /\ UNCHANGED <<clock, data, file, sheetEvents, sheet, init, cron8, hist>>

\* What logBillEvent does at once (lines 294-303): without a worksheet it
\* returns, and the handler goes on to build and post the running board
\* (lines 458-462); with one, addRow is in flight with the timestamp of
\* line 299.
LogBillEventCall(h, u, t, hasSheet) ==
    IF hasSheet
    THEN [h EXCEPT !.pc = "addRow", !.user = u, !.ts = toISOString(t)]
    ELSE [h EXCEPT !.pc = "postRun"]

\* A "bill" message from user u, lines 452-462: incrementCount with its
\* saveData, then logBillEvent.
Bill(r, u) ==
    /\ Arrives(r)
    /\ Normalize(" Bill ") = "bill"
    /\ data' = incrementCount(data, u)
    /\ file' = data'
    /\ hist' = [hist EXCEPT !.ingested = Append(@, r), !.incs[u] = @ + 1]
    /\ req' = [req EXCEPT ![r] = LogBillEventCall(NewReq, u, now, sheetEvents)]
    /\ UNCHANGED <<clock, sheetEvents, sheet, init, cron8>>

\* What the handler does when logBillEvent returns, after a resolved addRow
\* or a caught rejection (lines 305-307) alike: it builds the running board
\* from the tables as they are now and posts it (lines 458-462).
AfterLogBillEvent(h) == [NewReq EXCEPT !.pc = "postRun"]

\* addRow resolves (line 298): the row is in the sheet.
AddRowOk(r) ==
    /\ req[r].pc = "addRow"
    /\ sheet' = Append(sheet, Row(req[r].ts, req[r].user))
    /\ hist' = [hist EXCEPT !.appends = Append(@, r)]
    /\ req' = [req EXCEPT ![r] = AfterLogBillEvent(@)]
    /\ UNCHANGED <<clock, data, file, sheetEvents, init, cron8>>

\* logBillEvent without its try/catch (as in src/unnamed/part_000, lines
\* 113-122): the rejection reaches the catch of line 466, which answers 200
\* without posting the board.
AddRowFailSurfaced(r) ==
    /\ req[r].pc = "addRow"
    /\ hist' = [hist EXCEPT !.failed = @ \cup {r}]
    /\ req' = [req EXCEPT ![r] = DoneReq(200)]
    /\ UNCHANGED <<clock, data, file, sheetEvents, sheet, init, cron8>>

\* addRow rejects: logBillEvent logs the error and returns.
AddRowFail(r) ==
    /\ req[r].pc = "addRow"
    /\ hist' = [hist EXCEPT !.failed = @ \cup {r}]
    /\ req' = [req EXCEPT ![r] = AfterLogBillEvent(@)]
    /\ UNCHANGED <<clock, data, file, sheetEvents, sheet, init, cron8>>

\* postMessage of the running board resolves, or rejects into the catch of
\* line 466: either way the answer is 200 (lines 465, 468).
PostOk(r) ==
    /\ req[r].pc = "postRun"
    /\ req' = [req EXCEPT ![r] = DoneReq(200)]
    /\ UNCHANGED <<clock, data, file, sheetEvents, sheet, init, cron8, hist>>

PostFail(r) ==
    /\ req[r].pc = "postRun"
    /\ req' = [req EXCEPT ![r] = DoneReq(200)]
    /\ UNCHANGED <<clock, data, file, sheetEvents, sheet, init, cron8, hist>>

(***************************************************************************)
(* The clock and the cron jobs, lines 473-499.  A job starts at the        *)
(* instant of its schedule: the clock reaching that instant and the job's  *)
(* callback starting are one step.  The modelled instants lie hours apart: *)
(* an awaited I/O settles before the clock reaches the next one.           *)
(***************************************************************************)
Quiescent ==
    /\ \A r \in Reqs : req[r].pc \in {"new", "done"}
    /\ cron8.pc = "idle"
    /\ init.pc \in {"skipped", "failed", "rebuilt"}

Advance(crons) ==
    /\ clock < init.start + MaxTick
    /\ Quiescent
    /\ CronsAt(InstantAt(clock + 1)) = crons
    /\ clock' = clock + 1

\* Time passes to an instant at which no job is due.
Tick ==
    /\ Advance({})
    /\ UNCHANGED <<data, file, sheetEvents, sheet, init, req, cron8, hist>>

\* The 8PM job: post8pmLeaderboard({resetDaily: true}) up to its await.
Cron8pm ==
    /\ Advance({"8pm"})
    /\ cron8.pc = "idle"
    /\ cron8' = [pc |-> "post", msg |-> build8pmLeaderboardText(data),
                 sent |-> FALSE]
    /\ UNCHANGED <<data, file, sheetEvents, sheet, init, req, hist>>

\* Its postMessage resolves: the daily table is cleared and saved.
Cron8pmPostOk ==
    /\ cron8.pc = "post"
    /\ data' = ResetDaily(data, TRUE)
    /\ file' = data'
    /\ cron8' = [pc |-> "idle", msg |-> NoMessage, sent |-> TRUE]
    /\ UNCHANGED <<clock, sheetEvents, sheet, init, req, hist>>

\* Its postMessage rejects: the job ends.
Cron8pmPostFail ==
    /\ cron8.pc = "post"
    /\ cron8' = [pc |-> "idle", msg |-> NoMessage, sent |-> FALSE]
    /\ UNCHANGED <<clock, data, file, sheetEvents, sheet, init, req, hist>>

\* data.weekly = {}; saveData();
CronWeekly ==
    /\ Advance({"weekly"})
    /\ data' = [data EXCEPT !.weekly = EmptyTable]
    /\ file' = data'
    /\ UNCHANGED <<sheetEvents, sheet, init, req, cron8, hist>>

\* data.monthly = {}; saveData();
CronMonthly ==
    /\ Advance({"monthly"})
    /\ data' = [data EXCEPT !.monthly = EmptyTable]
    /\ file' = data'
    /\ UNCHANGED <<sheetEvents, sheet, init, req, cron8, hist>>

Next ==
    \/ LoadInfoOk \/ LoadInfoFail \/ GetRowsServe \/ GetRowsOk \/ GetRowsFail
    \/ \E r \in Reqs : Ignored(r) \/ Post8pmOk(r) \/ Post8pmFail(r)
    \/ \E r \in Reqs, reset \in BOOLEAN : Post8pmRequest(r, reset)
    \/ \E r \in Reqs, u \in Users : Bill(r, u)
    \/ \E r \in Reqs : AddRowOk(r) \/ AddRowFail(r) \/ PostOk(r) \/ PostFail(r)
    \/ Cron8pm \/ Cron8pmPostOk \/ Cron8pmPostFail
    \/ CronWeekly \/ CronMonthly \/ Tick

Spec == Init /\ [][Next]_vars

(***************************************************************************)
(* The webhook handler over a wider choice of senders, in a deployment     *)
(* without a sheet (lines 267-270): "bill" messages and their running      *)
(* boards.                                                                 *)
(***************************************************************************)
InitBill ==
    /\ clock = 1
    /\ \E exists \in BOOLEAN :
          data = LoadData(exists, CachedFile, InstantAt(clock))
    /\ file = data
    /\ sheetEvents = FALSE
    /\ sheet = << >>
    /\ init = [pc |-> "skipped", start |-> clock, now |-> 0, rows |-> << >>,
               again |-> FALSE]
    /\ req = [r \in Reqs |-> NewReq]
    /\ cron8 = [pc |-> "idle", msg |-> NoMessage, sent |-> FALSE]
    /\ hist = InitHist(data)

NextBill ==
    \/ \E r \in Reqs, u \in Senders : Bill(r, u)
    \/ \E r \in Reqs : PostOk(r) \/ PostFail(r)

SpecBill == InitBill /\ [][NextBill]_vars

(***************************************************************************)
(* The rebuild and the boards over a wider choice of logs.  The process    *)
(* has read the rows of one of these logs (line 355) and is about to run   *)
(* the loop; requests for the 8PM board arrive before and after.           *)
(***************************************************************************)
Repeat(x, n) == [j \in 1..n |-> x]

\* The insertion orders of up to four names.
Orders == UNION {{p \in [1..n -> Names] :
                     \A i, j \in 1..n : i # j => p[i] # p[j]} : n \in 0..4}

RECURSIVE Blocks(_, _, _)
Blocks(p, c, ts) ==
    IF p = << >> THEN << >>
    ELSE Repeat(Row(ts, Head(p)), Head(c)) \o Blocks(Tail(p), Tail(c), ts)

\* Logs of today's rows in which the users first appear in order p and
\* user p[i] has c[i] rows.
RankLogs ==
    {Blocks(p, c, toISOString(15 * MsPerHour)) :
        p \in {q \in Orders : Len(q) = 2}, c \in {<<5, 5>>, <<3, 5>>, <<5, 1>>}}
    \cup {Blocks(p, <<5, 5, 3, 1>>, toISOString(15 * MsPerHour)) :
              p \in {q \in Orders : Len(q) = 4}}

\* The instant of 00:00:00.000 New York time of Sunday Oct 26 and of Sunday
\* Nov 2 (both in daylight-saving time, UTC-4).
SundayMidnights == {4 * MsPerHour - 5 * MsPerDay, 52 * MsPerHour}

\* Logs with a row at a Sunday's local midnight and a row one millisecond
\* before it.
BoundaryLogs ==
    {<<Row(toISOString(t), "A"), Row(toISOString(t - 1), "B")>> :
        t \in SundayMidnights}
    \cup {<<Row(toISOString(t - 1), "A"), Row(toISOString(t), "A"),
            Row(toISOString(t + 1), "A")>> : t \in SundayMidnights}

\* Rows of several days and users, well-formed and not: A on Thu Oct 30, B
\* on Fri Oct 31, A on Sat Oct 25, B with a time that does not parse, no
\* user on Fri Oct 31.
RowPool ==
    {Row(toISOString(3 * MsPerHour), "A"),
     Row(toISOString(15 * MsPerHour), "B"),
     Row(toISOString(12 * MsPerHour - 6 * MsPerDay), "A"),
     Row(GarbageCell, "B"),
     Row(toISOString(16 * MsPerHour), "")}

\* The logs of three or four different rows of the pool, in every order.
MixedLogs ==
    UNION {{q \in [1..n -> RowPool] :
               \A i, j \in 1..n : i # j => q[i] # q[j]} : n \in 3..4}

Logs == RankLogs \cup SeedLogs \cup BoundaryLogs \cup MixedLogs

InitLog ==
    /\ clock \in 1..Len(ListedInstants) + 1
    /\ data = DefaultData(InstantAt(clock))
    /\ file = data
    /\ sheetEvents = TRUE
    /\ sheet \in Logs
    /\ init = [pc |-> "gotRows", start |-> clock, now |-> now, rows |-> sheet,
               again |-> FALSE]
    /\ req = [r \in Reqs |-> NewReq]
    /\ cron8 = [pc |-> "idle", msg |-> NoMessage, sent |-> FALSE]
    /\ hist = InitHist(data)

\* The process is stopped and started again at the same instant: it loads
\* the data.json the earlier run saved (lines 200-218), and its startup task
\* reads the same rows (lines 516-523).
Restart ==
    /\ init.pc = "rebuilt"
    /\ data' = LoadData(TRUE, file, now)
    /\ init' = [init EXCEPT !.pc = "gotRows", !.now = now, !.rows = sheet,
                            !.again = TRUE]
    /\ req' = [r \in Reqs |-> NewReq]
    /\ cron8' = [pc |-> "idle", msg |-> NoMessage, sent |-> FALSE]
    /\ hist' = InitHist(data')
    /\ UNCHANGED <<clock, file, sheetEvents, sheet>>

NextLog ==
    \/ GetRowsOk
    \/ Restart
    \/ \E r \in Reqs, reset \in BOOLEAN : Post8pmRequest(r, reset)

SpecLog == InitLog /\ [][NextLog]_vars

(***************************************************************************)
(* Notions the properties below are stated in.                             *)
(***************************************************************************)
TablesOf(d) == <<d.daily, d.weekly, d.monthly, d.allTime>>

Range(q) == {q[i] : i \in 1..Len(q)}

\* The startup rebuild has completed.
Rebuilt == init.pc = "rebuilt"

\* The startup task is on its way to its first rebuild.
Rebuilding == init.pc \in {"loadInfo", "getRows", "gotRows"}

\* This step counts a "bill" event in memory.
BillStep == hist'.ingested # hist.ingested

\* This step is the completion of rebuildCountsFromSheet.
RebuildStep == init.pc = "gotRows" /\ init'.pc = "rebuilt"

\* A log row is valid when it has an actor and a timestamp that parses.
ValidRow(r) == r.user # "" /\ r.timestamp.kind = "iso"

\* The number of valid rows of `rows` with actor u whose instant satisfies P.
CountRows(rows, u, P(_)) ==
    Cardinality({i \in 1..Len(rows) :
        /\ ValidRow(rows[i])
        /\ rows[i].user = u
        /\ P(ParseDate(rows[i].timestamp))})

Actors(rows) == {rows[i].user : i \in 1..Len(rows)} \cup Users

\* Table t holds exactly the positive counts n[u].
Holds(t, rows, n(_)) ==
    \A u \in Actors(rows) : Get(t, u) = n(u) /\ (u \in Keys(t) <=> n(u) > 0)

\* The tables of d are the bucket counts of `rows` as of instant t.
BucketsOf(d, rows, t) ==
    /\ Holds(d.allTime, rows, LAMBDA u : CountRows(rows, u, LAMBDA x : TRUE))
    /\ Holds(d.monthly, rows, LAMBDA u :
           CountRows(rows, u, LAMBDA x : getNyYMD(x).ym = getNyYMD(t).ym))
    /\ Holds(d.weekly, rows, LAMBDA u :
           CountRows(rows, u, LAMBDA x : nyOrdinalDay(x) >= WeekStartOrd(t)))
    /\ Holds(d.daily, rows, LAMBDA u :
           CountRows(rows, u, LAMBDA x : nyOrdinalDay(x) = nyOrdinalDay(t)))

(***************************************************************************)
(* C1.  Readiness gate: a "bill" event handled while the first rebuild has *)
(* not yet completed leaves all four counter tables unchanged.             *)
(***************************************************************************)
C1_ReadinessGate ==
    [][BillStep /\ Rebuilding => TablesOf(data') = TablesOf(data)]_vars

(***************************************************************************)
(* C2.  At-least-once delivery: an event counted in memory stops being     *)
(* pending for the log only by being appended to it; a failed append       *)
(* leaves it pending for a retry.                                          *)
(***************************************************************************)
C2_PendingUntilAppended ==
    [][\A r \in Reqs :
          req[r].pc = "addRow" /\ req'[r].pc # "addRow"
              => r \in Range(hist'.appends)]_vars

C5_RebuildReplaces ==
    [][RebuildStep =>
         \A k \in Tables : \A u \in Actors(init.rows) :
            /\ Get(data'[k], u) <= CountRows(init.rows, u, LAMBDA x : TRUE)
            /\ Keys(data'[k]) \subseteq
                  {init.rows[i].user : i \in {j \in 1..Len(init.rows) : ValidRow(init.rows[j])}}]_vars

\* A rebuild has replaced tables that held a count the log does not hold:
\* an event counted while the worksheet was not yet connected.
C5_Witness ==
    /\ Rebuilt
    /\ hist.incs = ZeroCounts
    /\ hist.ingested # << >> /\ hist.appends = << >> /\ hist.failed = {}
    /\ data.allTime # EmptyTable

(***************************************************************************)
(* C6.  Atomic rebuild: a step of the startup task either leaves all four  *)
(* tables as they were or installs all four from the completed rebuild, so *)
(* that no state in which another task can run (and build a leaderboard)   *)
(* holds a partially rebuilt set of tables.                                *)
(***************************************************************************)
C6_AtomicRebuild ==
    [][init' # init =>
         \/ TablesOf(data') = TablesOf(data)
         \/ init'.pc = "rebuilt" /\ BucketsOf(data', init.rows, init.now)]_vars

\* A leaderboard is built and being posted while the rows are being read,
\* and the tables it was built from differ from those the rebuild installs.
C6_Witness ==
    /\ init.pc = "gotRows"
    /\ \E r \in Reqs : req[r].pc = "post8" /\ req[r].msg = build8pmLeaderboardText(data)
    /\ ~BucketsOf(data, init.rows, init.now)

(***************************************************************************)
(* C7.  With no append failure, once no log write is pending, the log has  *)
(* received exactly one append per ingested event, in ingestion order.     *)
(* (Stated for a process whose log is configured.)                         *)
(***************************************************************************)
C7_ExactlyOnceInOrder ==
    (/\ init.pc # "skipped"
     /\ hist.failed = {}
     /\ \A r \in Reqs : req[r].pc # "addRow")
        => hist.appends = hist.ingested

(***************************************************************************)
(* C8.  A failed log append is not surfaced: the handler keeps the         *)
(* increment, goes on to post the running leaderboard, exactly as after a  *)
(* successful append, and answers 200.                                     *)
(***************************************************************************)
C8_AppendFailureNotSurfaced ==
    [][\A r \in Reqs :
          /\ req[r].pc = "addRow" /\ req'[r].pc # "addRow"
                => data' = data /\ req'[r].pc = "postRun"
          /\ req[r].pc = "postRun" /\ req'[r].pc # "postRun"
                => req'[r].pc = "done" /\ req'[r].status = 200]_vars

\* A request whose append failed has been answered 200 and its increment
\* is still counted.
C8_Witness ==
    \E r \in hist.failed :
        /\ req[r].pc = "done" /\ req[r].status = 200
        /\ \E u \in Users : hist.incs[u] = 1 /\ Get(data.allTime, u) = hist.base[u] + 1

(***************************************************************************)
(* C9.  Recording an event for the log never blocks the caller: no handler *)
(* is ever suspended on a log append.                                      *)
(***************************************************************************)
C9_HandlerNeverAwaitsLog == \A r \in Reqs : req[r].pc # "addRow"

(***************************************************************************)
(* C10.  If the log is unreachable at startup (Sheets init throws, or the  *)
(* read of the rows fails), the startup task ends in its catch and the     *)
(* counter tables, lastReset and data.json stay as they were.              *)
(***************************************************************************)
C10_FailedStartupKeepsState ==
    [][Rebuilding /\ init'.pc # init.pc /\ init'.pc \notin {"getRows", "gotRows", "rebuilt"}
         => init'.pc = "failed" /\ data' = data /\ file' = file]_vars

\* The read of the rows has failed over a cached, non-empty state.
C10_Witness ==
    /\ init.pc = "failed"
    /\ sheetEvents
    /\ data.lastReset = CachedFile.lastReset
    /\ data.allTime = CachedFile.allTime

(***************************************************************************)
(* C11.  A reset clears exactly its own table.  The step that ends a       *)
(* post8pmLeaderboard with resetDaily (the 8PM job or GET /test-8pm)       *)
(* leaves weekly, monthly and allTime as they are and, when it changes     *)
(* anything, leaves daily empty; the step of the weekly job empties weekly *)
(* and leaves the other three tables as they are, and the step of the      *)
(* monthly job does so for monthly.                                        *)
(***************************************************************************)
DailyResetEnds ==
    \/ cron8.pc = "post" /\ cron8'.pc = "idle"
    \/ \E r \in Reqs : req[r].pc = "post8" /\ req[r].reset /\ req'[r].pc = "done"

CronStep(c) == clock' # clock /\ c \in CronsAt(InstantAt(clock'))

OnlyCleared(k) ==
    /\ data'[k] = EmptyTable
    /\ \A j \in Tables \ {k} : data'[j] = data[j]

C11_ResetClearsOnlyItsTable ==
    [][/\ DailyResetEnds => TablesOf(data') = TablesOf(data) \/ OnlyCleared("daily")
       /\ CronStep("weekly") => OnlyCleared("weekly")
       /\ CronStep("monthly") => OnlyCleared("monthly")]_vars

\* No increment and no rebuild since data.json was loaded, yet daily is
\* empty and the other three tables are those of the file.
C11_Witness ==
    /\ init.pc = "skipped"
    /\ hist.incs = ZeroCounts
    /\ data.daily = EmptyTable
    /\ CachedFile.daily # EmptyTable
    /\ \A k \in Tables \ {"daily"} : data[k] = CachedFile[k]

(***************************************************************************)
(* C12.  Ranking order.  getTopThree(t) has min(3, number of keys of t)   *)
(* entries and is the prefix of that length of the full ranking of        *)
(* formatFullLeaderboard; the full ranking lists every entry of t once,    *)
(* by count descending, entries of equal count in the order in which their *)
(* users were first inserted into the table (after a rebuild: the order in *)
(* which they first occur in the rows read); an empty table gives the      *)
(* empty sequence.                                                         *)
(***************************************************************************)
RECURSIVE FirstSeen(_)
FirstSeen(rows) ==
    IF rows = << >> THEN << >>
    ELSE LET f == FirstSeen(SubSeq(rows, 1, Len(rows) - 1))
             r == rows[Len(rows)]
         IN  IF ~ValidRow(r) \/ r.user \in Range(f) THEN f ELSE Append(f, r.user)

Pos(seq, x) == CHOOSE i \in 1..Len(seq) : seq[i] = x

RankedBy(full, t, order) ==
    /\ Len(full) = Len(t)
    /\ Range(full) = Range(t)
    /\ \A i, j \in 1..Len(full) : i < j =>
          \/ full[i].count > full[j].count
          \/ /\ full[i].count = full[j].count
             /\ Pos(order, full[i].name) < Pos(order, full[j].name)

C12_RankingOrder ==
    Rebuilt =>
        LET t    == data.allTime
            top  == getTopThree(t)
            full == formatFullLeaderboard(t)
        IN  /\ Len(top) = (IF Len(t) < 3 THEN Len(t) ELSE 3)
            /\ top = SubSeq(full, 1, Len(top))
            /\ RankedBy(full, t, FirstSeen(init.rows))
            /\ (t = EmptyTable => top = << >>)

(***************************************************************************)
(* C13.  Weekly boundary.  The week start the rebuild computes is the day  *)
(* ordinal of a Sunday, 0 to 6 days before the New York day of `now`, and  *)
(* the rebuilt weekly[u] is the number of valid rows of u whose instant is *)
(* at or after 00:00:00.000 New York time of that Sunday: a row at that    *)
(* instant is counted, a row one millisecond earlier is not.               *)
(***************************************************************************)
\* The epoch day is a Friday: day ordinal o is a Sunday when it lies two
\* days after it, modulo a week.
IsSunday(o) == (o - EpochDay) % 7 = 2

\* The instant of 00:00:00.000 New York time of the day with ordinal o.
LocalMidnight(o) ==
    LET t == (o - EpochDay) * MsPerDay + 4 * MsPerHour
    IN  IF t < DstEnd THEN t ELSE t + MsPerHour

C13_WeeklyBoundary ==
    Rebuilt =>
        LET ws == WeekStartOrd(init.now)
            back == NyDayNumber(init.now) - ws
        IN  /\ IsSunday(ws)
            /\ back \in 0..6
            /\ Holds(data.weekly, init.rows, LAMBDA u :
                   CountRows(init.rows, u, LAMBDA x : x >= LocalMidnight(ws)))

\* Rebuilt from a row of A at the week's Sunday midnight and a row of B one
\* millisecond before it: A is in weekly, B is not.
C13_Witness ==
    /\ Rebuilt
    /\ init.rows = <<Row(toISOString(LocalMidnight(WeekStartOrd(init.now))), "A"),
                     Row(toISOString(LocalMidnight(WeekStartOrd(init.now)) - 1), "B")>>
    /\ data.weekly = <<Entry("A", 1)>>
    /\ Get(data.allTime, "B") = 1

(***************************************************************************)
(* C14.  The rebuild is idempotent over a fixed log.  When the process is  *)
(* started again over the same log at the same instant, the rebuild of the *)
(* second run leaves daily, weekly, monthly and allTime exactly as the     *)
(* rebuild of the first run left them.                                     *)
(***************************************************************************)
C14_RebuildIdempotent ==
    [][RebuildStep /\ init.again => TablesOf(data') = TablesOf(data)]_vars

\* The second run has rebuilt, from a log that fills the tables differently.
C14_Witness ==
    /\ Rebuilt
    /\ init.again
    /\ init.rows = SeedLog
    /\ Get(data.allTime, "A") = 3
    /\ Get(data.daily, "A") < 3

(***************************************************************************)
(* C15.  The rebuild is independent of the order of the rows: the tables   *)
(* rebuilt from a log hold, for every user and in each of the four tables, *)
(* the same count as the rebuild of any permutation of that log at the     *)
(* same `now`.                                                             *)
(***************************************************************************)
PermutationsOf(rows) ==
    {[i \in 1..Len(rows) |-> rows[f[i]]] :
        f \in {g \in [1..Len(rows) -> 1..Len(rows)] :
                  \A i, j \in 1..Len(rows) : i # j => g[i] # g[j]}}

SameCounts(t1, t2, users) ==
    \A k \in Tables : \A u \in users : Get(t1[k], u) = Get(t2[k], u)

C15_RebuildOrderIndependent ==
    Rebuilt /\ init.rows \in MixedLogs =>
        \A q \in PermutationsOf(init.rows) :
            SameCounts(data, RebuildTables(q, init.now), Actors(init.rows))

\* Rebuilt from four rows in which the two rows of A are not adjacent and a
\* malformed row comes first.
C15_Witness ==
    /\ Rebuilt
    /\ Len(init.rows) = 4
    /\ init.rows[1].timestamp = GarbageCell
    /\ init.rows[2].user = "A" /\ init.rows[3].user = "B" /\ init.rows[4].user = "A"
    /\ Get(data.allTime, "A") = 2
    /\ Get(data.weekly, "A") = 1
    /\ Get(data.daily, "B") = 1

C17_StateIsFunctionOfLog ==
    Rebuilt /\ Quiescent /\ hist.failed = {} =>
        SameCounts(data, RebuildTables(sheet, now), Users)

(***************************************************************************)
(* C18.  A publish-and-reset discards no unpublished count.  When the step *)
(* that ends post8pmLeaderboard({resetDaily: true}) clears the daily       *)
(* table, the table it clears is the one rendered into the message that    *)
(* was posted: its ranking is the "Today" section of that message.         *)
(***************************************************************************)
C18_ResetClearsWhatWasPosted ==
    [][/\ (cron8.pc = "post" /\ cron8'.pc = "idle" /\ data'.daily # data.daily
            => cron8.msg.sections[1] = getTopThree(data.daily))
       /\ \A r \in Reqs :
            (req[r].pc = "post8" /\ req[r].reset /\ req'[r].pc = "done"
                /\ data'.daily # data.daily
             => req[r].msg.sections[1] = getTopThree(data.daily))]_vars

(***************************************************************************)
(* C19.  A live increment is one step on all four tables.  The step that   *)
(* counts a "bill" of user u leaves u with an entry in each of daily,      *)
(* weekly, monthly and allTime that is 1 higher than before (1 when u had  *)
(* none), and leaves every other user's entry in every table as it was.    *)
(***************************************************************************)
C19_IncrementAllFour ==
    [][\A u \in Senders : hist'.incs[u] = hist.incs[u] + 1 =>
          \A k \in Tables :
              /\ u \in Keys(data'[k])
              /\ Get(data'[k], u) = Get(data[k], u) + 1
              /\ \A v \in Senders \ {u} :
                    /\ Get(data'[k], v) = Get(data[k], v)
                    /\ (v \in Keys(data'[k]) <=> v \in Keys(data[k]))]_vars

(***************************************************************************)
(* C20.  Bucket containment.  In every state after the startup rebuild,    *)
(* for every user u, daily[u] <= weekly[u] <= allTime[u] and               *)
(* daily[u] <= monthly[u] <= allTime[u], an absent key counting as 0.      *)
(***************************************************************************)
C20_BucketContainment ==
    Rebuilt =>
        \A u \in Users :
            /\ Get(data.daily, u) <= Get(data.weekly, u)
            /\ Get(data.weekly, u) <= Get(data.allTime, u)
            /\ Get(data.daily, u) <= Get(data.monthly, u)
            /\ Get(data.monthly, u) <= Get(data.allTime, u)

(***************************************************************************)
(* C21.  Reset only after a successful publication.  The step that ends a  *)
(* post8pmLeaderboard({resetDaily: true}) whose send has failed (GET       *)
(* /test-8pm answering 500, or the 8PM job ending without its message      *)
(* sent) leaves all four tables and data.json as they were; the step that  *)
(* ends one whose send has succeeded leaves daily empty.  No other step    *)
(* than these and the rebuild empties a daily table that held counts.      *)
(***************************************************************************)
C21_ResetOnlyAfterSend ==
    [][/\ \A r \in Reqs :
            req[r].pc = "post8" /\ req[r].reset /\ req'[r].pc = "done" =>
                IF req'[r].status = 500
                THEN data' = data /\ file' = file
                ELSE req'[r].status = 200 /\ data'.daily = EmptyTable
       /\ (cron8.pc = "post" /\ cron8'.pc = "idle" =>
                IF cron8'.sent
                THEN data'.daily = EmptyTable
                ELSE data' = data /\ file' = file)
       /\ (data.daily # EmptyTable /\ data'.daily = EmptyTable =>
                RebuildStep \/ DailyResetEnds)]_vars

\* The 8PM job has ended without its message sent and GET /test-8pm has
\* answered 500, and the daily table still holds its counts.
C21_Witness ==
    /\ clock = 2 /\ init.start = 1
    /\ cron8.pc = "idle" /\ ~cron8.sent
    /\ \E r \in Reqs : req[r].pc = "done" /\ req[r].status = 500
    /\ data.daily # EmptyTable
    /\ hist.incs = ZeroCounts

=========================================================================
